---- MODULE Spec2Model ----
(***************************************************************************)
(* Model of convert_gitbook_to_html.py: the incremental mirror of a        *)
(* documentation site.  Strings are sequences of one-character strings, an *)
(* HTML document is a sequence of markup tokens, a Python dict is a        *)
(* function whose DOMAIN is the set of keys present.                       *)
(***************************************************************************)
EXTENDS Integers, Sequences, FiniteSets, TLC

VARIABLES
  pc,                    \* where the process is: "idle", "entry", "loop"
  runs,                  \* number of runs of convert_gitbook_to_html started
  site,                  \* the remote site: URL -> the versions it serves, current first
  files,                 \* output directory: filename -> HTML document
  cache_file,            \* .cache/download_cache.json
  temp_cache_file,       \* .cache/temp_cache.json
  check_title_duplicate, \* command-line flag
  force_download,        \* command-line flag
  ignore_patterns,       \* command-line --ignore patterns
  cache_data,            \* in-memory cache of the running process
  title_mapping,         \* in-memory title index of the running process
  links,                 \* hrefs of the <a> elements of the entry page
  link_idx,              \* position of the for loop in links
  processed_urls,        \* URLs already seen by the loop
  page_count,            \* pages handed to save_webpage_as_html by the loop
  clock,                 \* datetime.now()
  incidents,             \* irregular events so far: failed requests and file
                         \* operations, interruptions, files deleted by hand
  changes,               \* versions the site has published since the start
  run_log                \* per run: the save_webpage_as_html calls and how it ended

vars == <<pc, runs, site, files, cache_file, temp_cache_file,
          check_title_duplicate, force_download, ignore_patterns,
          cache_data, title_mapping, links, link_idx, processed_urls,
          page_count, clock, incidents, changes, run_log>>

----------------------------------------------------------------------------
(* Bounds of the model *)

MaxRuns == 2
MaxIncidents == 1

(* Program constants *)

SnapshotPeriod == 10
MaxNameLen == 100
KeepLen == 90

----------------------------------------------------------------------------
(* Python values *)

None == "None"
EmptyDict == << >>
EmptyStr == << >>

\* d[k] = v on a dict
Put(d, k, v) == [x \in (DOMAIN d) \cup {k} |-> IF x = k THEN v ELSE d[x]]

\* del d[k]
Del(d, k) == [x \in (DOMAIN d) \ {k} |-> d[x]]

\* s.startswith(p)
StartsWith(s, p) == Len(s) >= Len(p) /\ SubSeq(s, 1, Len(p)) = p

\* p in s (a literal pattern given to re.search finds a substring)
Contains(s, p) ==
  \E i \in 1..(Len(s) - Len(p) + 1) : SubSeq(s, i, i + Len(p) - 1) = p

\* s.lstrip('/')
LStripSlash(s) ==
  LET kept == {i \in 1..Len(s) : s[i] # "/"}
  IN IF kept = {} THEN << >>
     ELSE SubSeq(s, CHOOSE i \in kept : \A j \in kept : i <= j, Len(s))

\* s.replace('/', '_')
ReplaceSlash(s) == [i \in 1..Len(s) |-> IF s[i] = "/" THEN "_" ELSE s[i]]

\* c.lower() for the letters the model uses
LowerChar(c) ==
  CASE c = "T" -> "t"
    [] c = "X" -> "x"
    [] OTHER -> c

\* s.lower()
Lower(s) == [i \in 1..Len(s) |-> LowerChar(s[i])]

----------------------------------------------------------------------------
(* HTML documents: a sequence of tokens [tag, val].                        *)
(*   title   <title>val</title>          a       <a href="val">            *)
(*   text    character data              script  <script>val</script>      *)
(*   style   <style>val</style>          comment <!--val-->                *)
(*   meta    <meta val>                  ws      a run of whitespace       *)
(*   open    <val  (start of a tag)      close   >                         *)
(*   id, class, data, aria, role, style_attr     the attribute tag="val"   *)
(*   lang    lang="val", an attribute the normalizer keeps                 *)
(*   stamp   a timestamp of one of the formats of lines 50-52              *)
(*   version a token v1.2 or v1.2.3      http    http(s)://val             *)
(*   path    a relative URL val          query   ?val after a URL          *)

Tok(tag, val) == [tag |-> tag, val |-> val]

VolatileTags == {"script", "style", "comment", "meta"}

RECURSIVE DropVolatile(_)
DropVolatile(doc) ==
  IF doc = << >> THEN << >>
  ELSE IF Head(doc).tag \in VolatileTags THEN DropVolatile(Tail(doc))
  ELSE <<Head(doc)>> \o DropVolatile(Tail(doc))

\* line 47: the attributes whose values are dropped
DynamicAttrs == {"data", "id", "class", "style_attr", "aria", "role"}

\* line 47, re.sub(r'\s(data-\w+|id|class|style|aria-\w+|role)=["\'][^"\']*["\']', ''):
\* an attribute of these that follows whitespace goes, with one character of
\* that whitespace
RECURSIVE StripDynamicAttrs(_)
StripDynamicAttrs(doc) ==
  IF Len(doc) < 2 THEN doc
  ELSE IF doc[1].tag = "ws" /\ doc[2].tag \in DynamicAttrs
       THEN (IF Len(doc[1].val) > 1
             THEN <<Tok("ws", SubSeq(doc[1].val, 1, Len(doc[1].val) - 1))>>
             ELSE << >>)
            \o StripDynamicAttrs(SubSeq(doc, 3, Len(doc)))
       ELSE <<Head(doc)>> \o StripDynamicAttrs(Tail(doc))

\* lines 50-55: timestamps and version numbers go
RECURSIVE DropStampsAndVersions(_)
DropStampsAndVersions(doc) ==
  IF doc = << >> THEN << >>
  ELSE IF Head(doc).tag \in {"stamp", "version"} THEN DropStampsAndVersions(Tail(doc))
  ELSE <<Head(doc)>> \o DropStampsAndVersions(Tail(doc))

\* line 58, re.sub(r'(https?://[^"\'&\s]+)\?[^"\'\s]+', r'\1'): the query
\* string of an absolute http(s) URL goes
RECURSIVE StripQueries(_)
StripQueries(doc) ==
  IF Len(doc) < 2 THEN doc
  ELSE IF doc[1].tag = "http" /\ doc[2].tag = "query"
       THEN <<doc[1]>> \o StripQueries(SubSeq(doc, 3, Len(doc)))
       ELSE <<Head(doc)>> \o StripQueries(Tail(doc))

\* re.sub(r'\s+', ' ', content): every run of whitespace becomes one space
RECURSIVE CollapseWs(_)
CollapseWs(doc) ==
  IF doc = << >> THEN << >>
  ELSE IF Head(doc).tag = "ws"
       THEN LET rest == CollapseWs(Tail(doc))
            IN IF rest # << >> /\ Head(rest).tag = "ws"
               THEN rest
               ELSE <<Tok("ws", <<" ">>)>> \o rest
       ELSE <<Head(doc)>> \o CollapseWs(Tail(doc))

\* content.strip()
Strip(doc) ==
  LET a == IF doc # << >> /\ Head(doc).tag = "ws" THEN Tail(doc) ELSE doc
  IN IF a # << >> /\ a[Len(a)].tag = "ws" THEN SubSeq(a, 1, Len(a) - 1) ELSE a

LowerDoc(doc) == [i \in 1..Len(doc) |-> Tok(doc[i].tag, Lower(doc[i].val))]

\* the steps of lines 61-73 act on markup the documents of the model do not
\* contain
clean_html_for_comparison(html_content) ==
  Strip(CollapseWs(StripQueries(DropStampsAndVersions(StripDynamicAttrs(
    DropVolatile(LowerDoc(html_content)))))))

\* hashlib.md5(...).hexdigest(): the digest stands for the text it was taken of
md5_hexdigest(text) == <<"md5", text>>

calculate_md5(content) == md5_hexdigest(clean_html_for_comparison(content))

\* the text of the first <title> element, EmptyStr when there is none
RECURSIVE get_page_title(_)
get_page_title(html_content) ==
  IF html_content = << >> THEN EmptyStr
  ELSE IF Head(html_content).tag = "title" THEN Head(html_content).val
  ELSE get_page_title(Tail(html_content))

\* no title is ever found in the index
check_title_exists_never(title, mapping) == FALSE

check_title_exists(title, mapping) ==
  IF mapping = EmptyDict \/ title = EmptyStr THEN FALSE
  ELSE title \in DOMAIN mapping

\* soup.find_all('a'), each link's href
RECURSIVE find_all_a(_)
find_all_a(html_content) ==
  IF html_content = << >> THEN << >>
  ELSE IF Head(html_content).tag = "a"
       THEN <<Head(html_content).val>> \o find_all_a(Tail(html_content))
       ELSE find_all_a(Tail(html_content))

----------------------------------------------------------------------------
(* URLs and file names.  Every URL of the model is on the origin of the    *)
(* entry page; a URL is written as the part after the origin.              *)

\* urljoin(base_url, href) for an href that starts with '/'
urljoin(base, href) == href

\* urlparse(url).path: the part before the query string and the fragment
url_path(url) ==
  LET marks == {i \in 1..Len(url) : url[i] \in {"?", "#"}}
  IN IF marks = {} THEN url
     ELSE SubSeq(url, 1, (CHOOSE i \in marks : \A j \in marks : i <= j) - 1)

\* the digest is taken of the part of the name that is kept
path_hash_of_kept(safe_path) == SubSeq(safe_path, 1, KeepLen)

\* the 10 leading hex digits of the md5 of the path
path_hash(safe_path) == safe_path

\* the name of the output file of a linked URL, without '.html'
safe_filename(full_url) ==
  LET stripped == LStripSlash(url_path(full_url))
      safe_path == IF stripped = << >> THEN <<"i", "n", "d", "e", "x">> ELSE stripped
      name == ReplaceSlash(safe_path)
  IN IF Len(name) > MaxNameLen
     THEN [stem |-> SubSeq(name, 1, KeepLen) \o <<"_">>, hash |-> path_hash(safe_path)]
     ELSE [stem |-> name, hash |-> << >>]

main_page_output == [stem |-> <<"i", "n", "d", "e", "x">>, hash |-> << >>]

----------------------------------------------------------------------------
(* The HTTP exchange.  A response is [status, body, etag, lm]; status 0    *)
(* stands for a request that raised before any status arrived (connection *)
(* error, timeout); etag and lm are None when the header is missing.       *)

Response(status, body, etag, lm) ==
  [status |-> status, body |-> body, etag |-> etag, lm |-> lm]

NotModified == Response(304, << >>, None, None)

\* the If-None-Match / If-Modified-Since headers of the request for url
conditional_headers(url, cache) ==
  [inm |-> IF url \in DOMAIN cache /\ "etag" \in DOMAIN cache[url]
           THEN cache[url]["etag"] ELSE None,
   ims |-> IF url \in DOMAIN cache /\ "last_modified" \in DOMAIN cache[url]
           THEN cache[url]["last_modified"] ELSE None]

\* what session.get(url, headers) returns when the site serves page, a
\* record [resource, conditional]: the resource, or 304 when the server
\* honours conditional requests and a validator of the request still matches
session_get(page, headers) ==
  IF /\ page.conditional
     /\ page.resource.status = 200
     /\ \/ headers.inm # None /\ headers.inm = page.resource.etag
        \/ headers.ims # None /\ headers.ims = page.resource.lm
  THEN NotModified
  ELSE page.resource

\* requests.get(base_url): a request without validators
requests_get(page) == page.resource

\* response.raise_for_status() raises for the 4xx and 5xx statuses
raises_for_status(status) == status >= 400 /\ status < 600

----------------------------------------------------------------------------
(* save_webpage_as_html.  io says how the local file system behaves in     *)
(* this call: io.read is FALSE when reading the existing file raises,      *)
(* io.write is "ok", "open_fails" (open(..., "w") raises, the file is left *)
(* alone) or "truncated" (write raises after open emptied the file).       *)

\* cache_data[url][key] = value, creating cache_data[url] when missing
set_field(cache, url, key, value) ==
  Put(cache, url, Put(IF url \in DOMAIN cache THEN cache[url] ELSE EmptyDict, key, value))

\* line 128: session.get raised, no response arrived
request_failed(response) == response.status = 0

\* a 304 is not told from a page
is_not_modified_never(response) == FALSE

\* line 131
is_not_modified(response) == response.status = 304

\* no page is taken for a duplicate
is_title_duplicate_never(page_title, mapping, has_mapping) == FALSE

\* line 140: the page is suppressed as a duplicate
is_title_duplicate(page_title, mapping, has_mapping) ==
  /\ page_title # EmptyStr
  /\ has_mapping
  /\ mapping # EmptyDict
  /\ check_title_exists(page_title, mapping)

\* lines 145-147 and 152-154: the title is stored in the record of the URL
store_title(cache, url, page_title) == set_field(cache, url, "title", page_title)

\* the title of an accepted page is not put into the index
register_title_never(mapping, has_mapping, page_title, output_filename) == mapping

\* lines 156-158: the title index gets the title of an accepted page
register_title(mapping, has_mapping, page_title, output_filename) ==
  IF has_mapping THEN Put(mapping, page_title, output_filename) ELSE mapping

\* lines 176-179: the cached digest equals the fresh one
cached_md5_matches(cache, url, content_md5) ==
  /\ url \in DOMAIN cache
  /\ "md5" \in DOMAIN cache[url]
  /\ cache[url]["md5"] = content_md5

\* any file at the target path counts as up to date
existing_file_present(disk, output_filename, readable, content_md5) ==
  output_filename \in DOMAIN disk

\* lines 184-192: the file on disk has the fresh digest
existing_file_matches(disk, output_filename, readable, content_md5) ==
  /\ output_filename \in DOMAIN disk
  /\ readable
  /\ calculate_md5(disk[output_filename]) = content_md5

\* the Last-Modified header is forgotten
store_validators_etag_only(cache, url, response) ==
  IF response.etag # None THEN set_field(cache, url, "etag", response.etag) ELSE cache

\* lines 223-226 and 240-244: the validators the response carries
store_validators(cache, url, response) ==
  LET c1 == IF response.etag # None
            THEN set_field(cache, url, "etag", response.etag) ELSE cache
  IN IF response.lm # None
     THEN set_field(c1, url, "last_modified", response.lm) ELSE c1

\* lines 218-227: the record of a page that is not written again
record_unchanged(cache, url, content_md5, response) ==
  store_validators(set_field(cache, url, "md5", content_md5), url, response)

\* lines 233-244: the record of a page that was written
record_download(cache, url, content_md5, response, now) ==
  store_validators(
    set_field(set_field(cache, url, "md5", content_md5), url, "last_download", now),
    url, response)

\* the digest is recorded before the page is written
record_failed_write_digest(cache, url, content_md5, response) ==
  set_field(cache, url, "md5", content_md5)

\* lines 230-231 raise, lines 252-254 return: the record stays as it is
record_failed_write(cache, url, content_md5, response) == cache

save_webpage_as_html(url, output_filename, cache, disk, mapping, has_mapping, response, io, now) ==
  LET untouched == [cache_data |-> cache, title_mapping |-> mapping, files |-> disk,
                    saved |-> FALSE, digested |-> FALSE, title_checked |-> FALSE,
                    file_read |-> FALSE, wrote |-> FALSE, faulted |-> 0,
                    disp |-> "error"]
  IN
  IF request_failed(response) THEN untouched
  ELSE IF is_not_modified(response) THEN [untouched EXCEPT !.disp = "not_modified"]
  ELSE IF raises_for_status(response.status) THEN untouched
  ELSE
    LET page_title == get_page_title(response.body)
        looked == page_title # EmptyStr /\ has_mapping /\ mapping # EmptyDict
    IN
    IF is_title_duplicate(page_title, mapping, has_mapping)
    THEN [untouched EXCEPT !.cache_data = store_title(cache, url, page_title),
                           !.title_checked = TRUE,
                           !.disp = "title_duplicate"]
    ELSE
      LET cache1 == IF page_title # EmptyStr
                    THEN store_title(cache, url, page_title) ELSE cache
          mapping1 == IF page_title # EmptyStr
                      THEN register_title(mapping, has_mapping, page_title, output_filename)
                      ELSE mapping
          content_md5 == calculate_md5(response.body)
          cache_hit == cached_md5_matches(cache1, url, content_md5)
          reads == ~cache_hit /\ output_filename \in DOMAIN disk
          disk_hit == ~cache_hit /\
                      existing_file_matches(disk, output_filename, io.read, content_md5)
          content_changed == ~(cache_hit \/ disk_hit)
          accepted == [untouched EXCEPT !.cache_data = cache1,
                                        !.title_mapping = mapping1,
                                        !.digested = TRUE,
                                        !.title_checked = looked,
                                        !.file_read = reads,
                                        !.faulted = IF reads /\ ~io.read THEN 1 ELSE 0]
      IN
      IF ~content_changed
      THEN [accepted EXCEPT
              !.cache_data = record_unchanged(cache1, url, content_md5, response),
              !.disp = IF cache_hit THEN "skip_cache" ELSE "skip_disk"]
      ELSE IF io.write = "open_fails"
      THEN [accepted EXCEPT
              !.cache_data = record_failed_write(cache1, url, content_md5, response),
              !.wrote = TRUE, !.faulted = @ + 1, !.disp = "write_failed"]
      ELSE IF io.write = "truncated"
      THEN [accepted EXCEPT
              !.files = Put(disk, output_filename, << >>),
              !.cache_data = record_failed_write(cache1, url, content_md5, response),
              !.wrote = TRUE, !.faulted = @ + 1, !.disp = "write_failed"]
      ELSE [accepted EXCEPT
              !.files = Put(disk, output_filename, response.body),
              !.cache_data = record_download(cache1, url, content_md5, response, now),
              !.wrote = TRUE,
              !.saved = TRUE,
              !.disp = "write"]

----------------------------------------------------------------------------
(* The sites the model is run against *)

base_url == <<"/", "d">>
UrlA == <<"/", "a">>
UrlB == <<"/", "b">>
UrlRoot == <<"/">>

T0 == <<"T", "0">>
T1 == <<"T", "1">>
T2 == <<"T", "2">>

\* the entry page: links to /a and /b, /a a second time, and a link that is
\* not relative to the origin
DocEntry == <<Tok("title", T0), Tok("a", UrlA), Tok("ws", <<" ">>), Tok("a", UrlB),
              Tok("a", UrlA), Tok("a", <<"x">>)>>
\* an entry page that links to the root of the site
DocEntryRoot == <<Tok("title", T0), Tok("a", UrlRoot), Tok("a", UrlA)>>
\* an entry page that links to itself
DocEntrySelf == <<Tok("title", T0), Tok("a", base_url), Tok("a", UrlA)>>
\* the root page of the site, which links to /b
DocRoot == <<Tok("title", T2), Tok("a", UrlB)>>
DocA == <<Tok("title", T1), Tok("text", <<"x">>)>>
\* DocA with other markup noise: another script, another case, more whitespace
DocANoise == <<Tok("title", T1), Tok("script", <<"s">>), Tok("text", <<"X">>),
               Tok("ws", <<" ", " ">>)>>
\* the title of DocA over other content
DocA2 == <<Tok("title", T1), Tok("text", <<"y">>)>>
DocB == <<Tok("title", T2), Tok("text", <<"z">>)>>
DocNoTitle == <<Tok("text", <<"z">>)>>

Ok(body, etag, lm) == Response(200, body, etag, lm)
NotFound == Response(404, << >>, None, None)
ConnectionError == Response(0, << >>, None, None)

\* a page of the site: what it serves and whether the server answers
\* conditional requests with 304
Honouring(resource) == [resource |-> resource, conditional |-> TRUE]
Plain(resource) == [resource |-> resource, conditional |-> FALSE]

\* the versions of a URL over time, the current one first
EntryStable == <<Honouring(Ok(DocEntry, "e0", None))>>
EntryChanged == <<Plain(Ok(DocEntry, None, "m0")),
                  Plain(Ok(DocEntry \o <<Tok("text", <<"y">>)>>, None, "m0"))>>
EntryRoot == <<Plain(Ok(DocEntryRoot, None, None))>>
EntrySelf == <<Plain(Ok(DocEntrySelf, None, None))>>

AStable == <<Honouring(Ok(DocA, "e1", "m1"))>>
ANoise == <<Plain(Ok(DocA, "e1", "m1")), Plain(Ok(DocANoise, "e2", None))>>
AStaleEtag == <<Honouring(Ok(DocA, "e1", "m1")), Honouring(Ok(DocA2, "e1", "m1"))>>
AChanged == <<Plain(Ok(DocA, "e1", None)), Plain(Ok(DocA2, "e2", None))>>
ALate == <<Plain(NotFound), Plain(Ok(DocA, None, None))>>

BPlain == <<Plain(Ok(DocB, None, "m1"))>>
BSameTitle == <<Plain(Ok(DocA2, "e2", None))>>
BMultipleChoices == <<Plain(Response(300, DocNoTitle, "e3", None))>>

SiteOf(entry, a, b) ==
  [u \in {base_url, UrlA, UrlB, UrlRoot} |->
     CASE u = base_url -> entry
       [] u = UrlA -> a
       [] u = UrlB -> b
       [] OTHER -> <<Plain(Ok(DocRoot, None, None))>>]

Sites ==
  { SiteOf(EntryStable, AStable, BPlain),
    SiteOf(EntryStable, ANoise, BSameTitle),
    SiteOf(EntryStable, AStaleEtag, BMultipleChoices),
    SiteOf(EntryStable, AChanged, BSameTitle),
    SiteOf(EntryStable, ALate, BPlain),
    SiteOf(EntryChanged, AStable, BSameTitle),
    SiteOf(EntryChanged, AChanged, BPlain),
    SiteOf(EntryRoot, AStable, BPlain),
    SiteOf(EntryRoot, ANoise, BMultipleChoices),
    SiteOf(EntrySelf, AStable, BPlain) }

\* the command lines the model is run with
Flags(check, force, ignore) == [check |-> check, force |-> force, ignore |-> ignore]
CommandLines ==
  { Flags(FALSE, FALSE, {}), Flags(TRUE, FALSE, {}),
    Flags(FALSE, TRUE, {}), Flags(TRUE, FALSE, {UrlB}) }

\* the part of the URL that is sent to the server: the fragment is not
request_target(url) ==
  LET marks == {i \in 1..Len(url) : url[i] = "#"}
  IN IF marks = {} THEN url
     ELSE SubSeq(url, 1, (CHOOSE i \in marks : \A j \in marks : i <= j) - 1)

resource_of(url) == Head(site[request_target(url)])

----------------------------------------------------------------------------
(* Files of the cache directory: [state, data], state "missing", "corrupt" *)
(* (not parseable as JSON) or "ok"                                         *)

MissingFile == [state |-> "missing", data |-> EmptyDict]
CorruptFile == [state |-> "corrupt", data |-> EmptyDict]
JsonFile(data) == [state |-> "ok", data |-> data]

get_cache_info(file) == IF file.state = "ok" THEN file.data ELSE EmptyDict

save_cache_info(data) == JsonFile(data)

----------------------------------------------------------------------------
(* Transient failures of one step: plan.net / plan.net2 are FALSE when the *)
(* first / second request of the step raises, plan.read / plan.read2 when  *)
(* reading a file raises, plan.write is the outcome of writing the page.   *)
(* A step takes a plan only when every failure of the plan happens in it.  *)

planned(plan) ==
    (IF plan.net THEN 0 ELSE 1) + (IF plan.read THEN 0 ELSE 1)
  + (IF plan.write = "ok" THEN 0 ELSE 1)
  + (IF plan.net2 THEN 0 ELSE 1) + (IF plan.read2 THEN 0 ELSE 1)

FaultPlans(budget) ==
  { plan \in [net : BOOLEAN, read : BOOLEAN, write : {"ok", "open_fails", "truncated"},
              net2 : BOOLEAN, read2 : BOOLEAN] : planned(plan) <= budget }

----------------------------------------------------------------------------
(* The log of the runs *)

NewRun == [ended |-> "running", calls |-> << >>, files |-> EmptyDict,
           memory |-> EmptyDict, index |-> EmptyDict]

Call(url, output_filename, response, plan, r) ==
  [url |-> url, file |-> output_filename, response |-> response,
   readable |-> plan.read, write |-> plan.write, disp |-> r.disp,
   digested |-> r.digested, title_checked |-> r.title_checked,
   file_read |-> r.file_read, wrote |-> r.wrote]

LogCall(log, call) ==
  [log EXCEPT ![Len(log)].calls = Append(@, call)]

LogEnd(log, how, disk, memory, index) ==
  [log EXCEPT ![Len(log)].ended = how, ![Len(log)].files = disk,
              ![Len(log)].memory = memory, ![Len(log)].index = index]

----------------------------------------------------------------------------
(* convert_gitbook_to_html *)

\* lines 270-286: the title index built from the .html files of the output
\* directory that can be read; of two files with one title the one that
\* os.listdir yields last owns it
scanned_title_mappings(disk, unreadable) ==
  LET titled == {f \in (DOMAIN disk) \ unreadable : get_page_title(disk[f]) # EmptyStr}
      titles == {get_page_title(disk[f]) : f \in titled}
  IN {m \in [titles -> titled] : \A t \in titles : get_page_title(disk[m[t]]) = t}

\* the memory of a process that is not running
NoProcess ==
  /\ cache_data' = EmptyDict
  /\ title_mapping' = EmptyDict
  /\ links' = << >>
  /\ link_idx' = 0
  /\ processed_urls' = {}
  /\ page_count' = 0

\* lines 257-290: the process starts, loads the cache and builds the title index
StartRun ==
  /\ pc = "idle"
  /\ runs < MaxRuns
  /\ IF check_title_duplicate
     THEN \E unreadable \in SUBSET (DOMAIN files) :
            /\ Cardinality(unreadable) <= MaxIncidents - incidents
            /\ title_mapping' \in scanned_title_mappings(files, unreadable)
            /\ incidents' = incidents + Cardinality(unreadable)
     ELSE /\ title_mapping' = EmptyDict
          /\ incidents' = incidents
  /\ cache_data' = get_cache_info(cache_file)
  /\ pc' = "entry"
  /\ runs' = runs + 1
  /\ clock' = clock + 1
  /\ run_log' = Append(run_log, NewRun)
  /\ links' = << >>
  /\ link_idx' = 0
  /\ processed_urls' = {}
  /\ page_count' = 0
  /\ UNCHANGED <<site, files, cache_file, temp_cache_file, check_title_duplicate,
                 force_download, ignore_patterns, changes>>

\* lines 376-379: an exception reaches the handler of convert_gitbook_to_html
\* and the run ends without the final save of the cache
Aborted(disk, memory, index, log) ==
  /\ pc' = "idle"
  /\ run_log' = LogEnd(log, "aborted", disk, memory, index)
  /\ NoProcess

\* lines 292-325: the entry page is saved and its links are collected
FetchEntry ==
  /\ pc = "entry"
  /\ \E plan \in FaultPlans(MaxIncidents - incidents) :
     LET answer == session_get(resource_of(base_url),
                             conditional_headers(base_url, cache_data))
           response == IF plan.net THEN answer ELSE ConnectionError
           r == save_webpage_as_html(base_url, main_page_output, cache_data, files,
                                     title_mapping, check_title_duplicate, response,
                                     [read |-> plan.read, write |-> plan.write], clock)
           log == LogCall(run_log, Call(base_url, main_page_output, response, plan, r))
           reads_copy == ~(r.saved \/ force_download)
           copy_read == reads_copy /\ main_page_output \in DOMAIN r.files /\ plan.read2
           again == IF plan.net2 THEN requests_get(resource_of(base_url))
                    ELSE ConnectionError
           raised == again.status = 0 \/ raises_for_status(again.status)
           html_content == IF copy_read THEN r.files[main_page_output] ELSE again.body
           used == (IF plan.net THEN 0 ELSE 1) + r.faulted
                   + (IF reads_copy /\ main_page_output \in DOMAIN r.files /\ ~plan.read2
                      THEN 1 ELSE 0)
                   + (IF ~copy_read /\ ~plan.net2 THEN 1 ELSE 0)
       IN /\ planned(plan) = used
          /\ files' = r.files
          /\ incidents' = incidents + used
          /\ IF ~copy_read /\ raised
             THEN Aborted(r.files, r.cache_data, r.title_mapping, log)
             ELSE /\ cache_data' = r.cache_data
                  /\ title_mapping' = r.title_mapping
                  /\ links' = find_all_a(html_content)
                  /\ link_idx' = 1
                  /\ processed_urls' = {}
                  /\ page_count' = 0
                  /\ pc' = "loop"
                  /\ run_log' = log
  /\ UNCHANGED <<runs, site, cache_file, temp_cache_file, check_title_duplicate,
                 force_download, ignore_patterns, clock, changes>>

\* the ignore patterns are not looked at
ignored_never(full_url, patterns) == FALSE

\* an exception of save_webpage_as_html leaves the loop
pc_after_exception(disp) ==
  IF disp \in {"error", "write_failed"} THEN "idle" ELSE "loop"

\* lines 249-254 and 360: save_webpage_as_html catches what it raises and
\* returns False, the loop ignores what it returns and goes on
pc_after_call(disp) == "loop"

\* line 338: the URL matches one of the ignore patterns
ignored(full_url, patterns) == \E pattern \in patterns : Contains(full_url, pattern)

\* lines 327-365: one iteration of the loop over the links
ProcessLink ==
  /\ pc = "loop"
  /\ link_idx <= Len(links)
  /\ link_idx' = link_idx + 1
  /\ LET href == links[link_idx]
         full_url == urljoin(base_url, href)
     IN IF href = EmptyStr \/ ~StartsWith(href, <<"/">>)
        THEN UNCHANGED <<pc, files, cache_data, title_mapping, processed_urls, page_count,
                         temp_cache_file, incidents, run_log>>
        ELSE IF full_url \in processed_urls
        THEN UNCHANGED <<pc, files, cache_data, title_mapping, processed_urls, page_count,
                         temp_cache_file, incidents, run_log>>
        ELSE IF ignored(full_url, ignore_patterns)
        THEN /\ processed_urls' = processed_urls \cup {full_url}
             /\ UNCHANGED <<pc, files, cache_data, title_mapping, page_count,
                            temp_cache_file, incidents, run_log>>
        ELSE
          \E plan \in FaultPlans(MaxIncidents - incidents) :
            LET output_filename == safe_filename(full_url)
                answer == session_get(resource_of(full_url),
                                      conditional_headers(full_url, cache_data))
                response == IF plan.net THEN answer ELSE ConnectionError
                r == save_webpage_as_html(full_url, output_filename, cache_data, files,
                                          title_mapping, check_title_duplicate, response,
                                          [read |-> plan.read, write |-> plan.write], clock)
            IN /\ planned(plan) = (IF plan.net THEN 0 ELSE 1) + r.faulted
               /\ pc' = pc_after_call(r.disp)
               /\ processed_urls' = processed_urls \cup {full_url}
               /\ files' = r.files
               /\ cache_data' = r.cache_data
               /\ title_mapping' = r.title_mapping
               /\ page_count' = page_count + 1
               /\ temp_cache_file' = IF (page_count + 1) % SnapshotPeriod = 0
                                     THEN save_cache_info(r.cache_data)
                                     ELSE temp_cache_file
               /\ incidents' = incidents + (IF plan.net THEN 0 ELSE 1) + r.faulted
               /\ run_log' = LogCall(run_log, Call(full_url, output_filename, response, plan, r))
  /\ UNCHANGED <<runs, site, cache_file, check_title_duplicate, force_download,
                 ignore_patterns, links, clock, changes>>

\* lines 367-374: the cache is saved and the snapshot removed
Finalize ==
  /\ pc = "loop"
  /\ link_idx > Len(links)
  /\ cache_file' = save_cache_info(cache_data)
  /\ temp_cache_file' = MissingFile
  /\ pc' = "idle"
  /\ run_log' = LogEnd(run_log, "finalized", files, cache_data, title_mapping)
  /\ NoProcess
  /\ UNCHANGED <<runs, site, files, check_title_duplicate, force_download,
                 ignore_patterns, clock, incidents, changes>>

\* the process is interrupted (killed, Ctrl-C) before it saved the cache; when
\* that happens while line 368 writes the cache file, the file is left torn
Crash ==
  /\ pc \in {"entry", "loop"}
  /\ incidents < MaxIncidents
  /\ incidents' = incidents + 1
  /\ pc' = "idle"
  /\ \E torn \in BOOLEAN :
       /\ torn => pc = "loop" /\ link_idx > Len(links)
       /\ cache_file' = IF torn THEN CorruptFile ELSE cache_file
  /\ run_log' = LogEnd(run_log, "crashed", files, cache_data, title_mapping)
  /\ NoProcess
  /\ UNCHANGED <<runs, site, files, temp_cache_file, check_title_duplicate,
                 force_download, ignore_patterns, clock, changes>>

\* between two runs the site publishes the next version of a page
SiteChange ==
  /\ pc = "idle"
  /\ 0 < runs /\ runs < MaxRuns
  /\ \E u \in DOMAIN site :
       /\ Len(site[u]) > 1
       /\ site' = [site EXCEPT ![u] = Tail(@)]
  /\ changes' = changes + 1
  /\ UNCHANGED <<pc, runs, files, cache_file, temp_cache_file, check_title_duplicate,
                 force_download, ignore_patterns, cache_data, title_mapping, links,
                 link_idx, processed_urls, page_count, clock, incidents, run_log>>

\* between two runs somebody deletes an output file
DeleteOutputFile ==
  /\ pc = "idle"
  /\ 0 < runs /\ runs < MaxRuns
  /\ incidents < MaxIncidents
  /\ \E f \in DOMAIN files : files' = Del(files, f)
  /\ incidents' = incidents + 1
  /\ UNCHANGED <<pc, runs, site, cache_file, temp_cache_file, check_title_duplicate,
                 force_download, ignore_patterns, cache_data, title_mapping, links,
                 link_idx, processed_urls, page_count, clock, changes, run_log>>

\* between two runs somebody deletes the cache directory
DeleteCache ==
  /\ pc = "idle"
  /\ 0 < runs /\ runs < MaxRuns
  /\ incidents < MaxIncidents
  /\ cache_file.state # "missing"
  /\ cache_file' = MissingFile
  /\ temp_cache_file' = MissingFile
  /\ incidents' = incidents + 1
  /\ UNCHANGED <<pc, runs, site, files, check_title_duplicate,
                 force_download, ignore_patterns, cache_data, title_mapping, links,
                 link_idx, processed_urls, page_count, clock, changes, run_log>>

\* an empty output directory, no process running
InitWith(sites, command_lines) ==
  /\ pc = "idle"
  /\ runs = 0
  /\ site \in sites
  /\ files = EmptyDict
  /\ cache_file = MissingFile
  /\ temp_cache_file = MissingFile
  /\ \E cl \in command_lines :
       /\ check_title_duplicate = cl.check
       /\ force_download = cl.force
       /\ ignore_patterns = cl.ignore
  /\ cache_data = EmptyDict
  /\ title_mapping = EmptyDict
  /\ links = << >>
  /\ link_idx = 0
  /\ processed_urls = {}
  /\ page_count = 0
  /\ clock = 0
  /\ incidents = 0
  /\ changes = 0
  /\ run_log = << >>

Init == InitWith(Sites, CommandLines)

\* a site whose entry page has one link more than the snapshot period; the
\* first of the linked pages changes once
CrashLinks == SnapshotPeriod + 1
Letters == <<"a", "b", "c", "e", "f", "g", "h", "i", "j", "k", "l", "m">>
CrashUrl(i) == <<"/", Letters[i]>>
DocCrashEntry == <<Tok("title", T0)>> \o [i \in 1..CrashLinks |-> Tok("a", CrashUrl(i))]
DocCrashPage(i) == <<Tok("title", <<Letters[i]>>), Tok("text", <<Letters[i]>>)>>
CrashSite ==
  [u \in {base_url} \cup {CrashUrl(i) : i \in 1..CrashLinks} |->
     IF u = base_url THEN <<Plain(Ok(DocCrashEntry, None, None))>>
     ELSE IF u = UrlA THEN AChanged
     ELSE LET i == CHOOSE n \in 1..CrashLinks : CrashUrl(n) = u
          IN <<Plain(Ok(DocCrashPage(i), None, None))>>]

InitCrash == InitWith({CrashSite}, {Flags(FALSE, FALSE, {}), Flags(FALSE, TRUE, {})})

\* a site whose entry page links two URLs whose names are one character
\* longer than MaxNameLen and differ after the first KeepLen characters, a
\* URL whose name has MaxNameLen characters, a nested path, a URL with a
\* query string, a URL with a fragment, and the root of the site
Rep(c, n) == [i \in 1..n |-> c]
LongUrlY == <<"/">> \o Rep("x", KeepLen) \o Rep("y", MaxNameLen - KeepLen + 1)
LongUrlZ == <<"/">> \o Rep("x", KeepLen) \o Rep("z", MaxNameLen - KeepLen + 1)
FullLenUrl == <<"/">> \o Rep("x", MaxNameLen)
NestedUrl == <<"/", "a", "/", "b">>
QueryUrl == <<"/", "a", "?", "q">>
FragmentUrl == <<"/", "b", "#", "f">>
NameLinks == <<LongUrlY, LongUrlZ, FullLenUrl, NestedUrl, UrlA, QueryUrl, FragmentUrl, UrlRoot>>
DocNamesEntry == <<Tok("title", T0)>> \o [i \in 1..Len(NameLinks) |-> Tok("a", NameLinks[i])]
NamesSite ==
  [u \in {base_url} \cup {request_target(NameLinks[i]) : i \in 1..Len(NameLinks)} |->
     IF u = base_url THEN <<Plain(Ok(DocNamesEntry, None, None))>>
     ELSE IF u = UrlA THEN AChanged
     ELSE LET i == CHOOSE n \in 1..Len(NameLinks) : request_target(NameLinks[n]) = u
          IN <<Plain(Ok(<<Tok("text", <<Letters[i]>>)>>, None, None))>>]

InitNames == InitWith({NamesSite}, {Flags(FALSE, FALSE, {})})

\* a page with markup of every kind the normalizer drops, and the sites on
\* which /a changes in one place of that markup between two runs
DocVolatile ==
  <<Tok("title", T1), Tok("open", <<"p">>), Tok("ws", <<" ">>), Tok("id", <<"x">>),
    Tok("ws", <<" ">>), Tok("lang", <<"e">>), Tok("close", << >>),
    Tok("script", <<"s">>), Tok("style", <<"s">>), Tok("comment", <<"c">>),
    Tok("stamp", <<"1">>), Tok("version", <<"1">>),
    Tok("http", <<"u">>), Tok("query", <<"q">>),
    Tok("path", <<"/", "r">>), Tok("query", <<"q">>),
    Tok("text", <<"x">>), Tok("ws", <<" ">>), Tok("text", <<"y">>),
    Tok("open", <<"d">>), Tok("ws", <<" ">>), Tok("class", <<"c">>), Tok("close", << >>)>>

\* the places of DocVolatile that hold such markup
VolatilePlaces ==
  {i \in 1..Len(DocVolatile) :
     DocVolatile[i].tag \in {"ws", "script", "style", "comment", "stamp", "version", "query"}
                             \cup DynamicAttrs}

\* DocVolatile with another value, or a longer run of whitespace, at place i
DocVaried(i) ==
  [DocVolatile EXCEPT ![i].val = IF DocVolatile[i].tag = "ws" THEN @ \o <<" ">>
                                 ELSE <<"z">>]

NormSites ==
  {SiteOf(EntryStable,
          <<Plain(Ok(DocVolatile, None, None)), Plain(Ok(DocVaried(i), None, None))>>,
          BPlain) : i \in VolatilePlaces}

InitNorm == InitWith(NormSites, {Flags(FALSE, FALSE, {})})

Next ==
  \/ StartRun
  \/ FetchEntry
  \/ ProcessLink
  \/ Finalize
  \/ Crash
  \/ SiteChange
  \/ DeleteOutputFile
  \/ DeleteCache

Spec == Init /\ [][Next]_vars

\* the runs that nobody interrupts.  The loop of lines 327-365 is sequential
\* code: an iteration that can be taken is taken, and so is the final save,
\* as long as every request returns (the code sets no timeout)
NextWalk ==
  \/ StartRun
  \/ FetchEntry
  \/ ProcessLink
  \/ Finalize
  \/ SiteChange
  \/ DeleteOutputFile
  \/ DeleteCache

InitWalk ==
  InitWith({SiteOf(EntryStable, ANoise, BSameTitle),
            SiteOf(EntryStable, ALate, BPlain),
            SiteOf(EntryRoot, ANoise, BMultipleChoices)},
           {Flags(FALSE, FALSE, {}), Flags(TRUE, FALSE, {UrlB})})

\* line 327: the for loop takes its next link (the step ProcessLink makes,
\* which is possible whenever a link is left)
LoopIteration == pc = "loop" /\ link_idx <= Len(links) /\ link_idx' = link_idx + 1

SpecWalk ==
  InitWalk /\ [][NextWalk]_vars /\ WF_link_idx(LoopIteration) /\ WF_vars(Finalize)

\* the same program over the site with many links
SpecCrash == InitCrash /\ [][Next]_vars

\* the same program over the sites whose page changes in volatile markup
SpecNorm == InitNorm /\ [][Next]_vars

\* the same program over the site with the long links
SpecNames == InitNames /\ [][Next]_vars

----------------------------------------------------------------------------
(* Reading the log and the cache *)

\* the calls of the run in progress, or of the last run
Calls == IF run_log = << >> THEN << >> ELSE run_log[Len(run_log)].calls

\* this step made a call of save_webpage_as_html
Called == Len(run_log') = Len(run_log) /\ Len(Calls') = Len(Calls) + 1

\* the call this step made
TheCall == Calls'[Len(Calls')]

\* the cache and the title index of the process after this step, also when the
\* step ended the process
CacheAfter == IF pc' = "idle" THEN run_log'[Len(run_log')].memory ELSE cache_data'
IndexAfter == IF pc' = "idle" THEN run_log'[Len(run_log')].index ELSE title_mapping'

\* cache[url].get(key) as a sequence of at most one value
Field(cache, url, key) ==
  IF url \in DOMAIN cache /\ key \in DOMAIN cache[url] THEN <<cache[url][key]>> ELSE << >>

\* cache.get(url) as a sequence of at most one record
Record(cache, url) == IF url \in DOMAIN cache THEN <<cache[url]>> ELSE << >>

\* a header of a response as a sequence of at most one value
Header(value) == IF value = None THEN << >> ELSE <<value>>

Is2xx(response) == response.status >= 200 /\ response.status < 300

----------------------------------------------------------------------------
(* C1: two runs in succession over an unchanged site, with nothing going   *)
(* wrong locally: the second run writes no output file and leaves the set  *)
(* of output files and their contents as the first run left them.          *)

C1_Idempotent ==
  \A k \in 1..(Len(run_log) - 1) :
    ( /\ run_log[k].ended = "finalized"
      /\ run_log[k + 1].ended = "finalized"
      /\ changes = 0
      /\ incidents = 0 )
    => /\ \A i \in 1..Len(run_log[k + 1].calls) : ~run_log[k + 1].calls[i].wrote
       /\ run_log[k + 1].files = run_log[k].files

----------------------------------------------------------------------------
(* C2: a call whose response is 304 Not Modified writes no file, computes  *)
(* no digest, looks neither at the title index nor at the file on disk,    *)
(* and leaves the cache, the title index and the output files as they were.*)

C2_NotModifiedChangesNothing ==
  [][ (Called /\ TheCall.response.status = 304)
      => /\ files' = files
         /\ CacheAfter = cache_data
         /\ IndexAfter = title_mapping
         /\ ~TheCall.wrote
         /\ ~TheCall.digested
         /\ ~TheCall.title_checked
         /\ ~TheCall.file_read ]_vars

\* a 304 was answered for /a although the page has changed since its digest
\* was cached
C2_Witness ==
  /\ pc = "loop"
  /\ \E i \in 1..Len(Calls) :
       /\ Calls[i].url = UrlA
       /\ Calls[i].response.status = 304
       /\ Field(cache_data, UrlA, "md5") # <<calculate_md5(resource_of(UrlA).resource.body)>>
       /\ Field(cache_data, UrlA, "md5") # << >>

----------------------------------------------------------------------------
(* C3: for a 2xx response that is not suppressed as a title duplicate the  *)
(* page is skipped when the cached md5 of the URL is the digest of the     *)
(* fresh body, else skipped when the target file exists, can be read and   *)
(* has that digest, else written (also when the file cannot be read); the  *)
(* output file is written in the last case and in no other.                *)

C3_ReconcilerPolicy ==
  [][ (Called /\ Is2xx(TheCall.response) /\ TheCall.disp # "title_duplicate")
      => LET c == TheCall
             digest == calculate_md5(c.response.body)
             cached == Field(cache_data, c.url, "md5") = <<digest>>
             on_disk == /\ c.file \in DOMAIN files
                        /\ c.readable
                        /\ calculate_md5(files[c.file]) = digest
         IN /\ c.digested
            /\ cached => c.disp = "skip_cache" /\ ~c.file_read
            /\ (~cached /\ on_disk) => c.disp = "skip_disk"
            /\ (cached \/ on_disk) => ~c.wrote /\ files' = files
            /\ ~(cached \/ on_disk)
                 => /\ c.wrote
                    /\ c.disp \in {"write", "write_failed"}
                    /\ c.write = "ok" => /\ c.disp = "write"
                                         /\ files' = Put(files, c.file, c.response.body)
                    /\ \A f \in (DOMAIN files) \ {c.file} :
                         f \in DOMAIN files' /\ files'[f] = files[f] ]_vars

\* a page was written over a file that could not be read
C3_Witness ==
  \E i \in 1..Len(Calls) :
    /\ Calls[i].disp = "write"
    /\ ~Calls[i].readable
    /\ Calls[i].file_read

----------------------------------------------------------------------------
(* C4 as claimed: after a skip by digest and after a write the record of   *)
(* the URL holds the digest, the entity tag and the last-modified value of *)
(* that response, and after a write last_download is the current time.     *)

C4_RecordEqualsFresh ==
  [][ (Called /\ TheCall.disp \in {"skip_cache", "skip_disk", "write"})
      => LET c == TheCall
         IN /\ Field(CacheAfter, c.url, "md5") = <<calculate_md5(c.response.body)>>
            /\ Field(CacheAfter, c.url, "etag") = Header(c.response.etag)
            /\ Field(CacheAfter, c.url, "last_modified") = Header(c.response.lm)
            /\ c.disp = "write" => Field(CacheAfter, c.url, "last_download") = <<clock>> ]_vars

(* C4 as amended: the record holds the digest of that response; each of    *)
(* the entity tag and the last-modified value is the one of the response   *)
(* when the response carries the header and is left as it was when it does *)
(* not; a write sets last_download to the current time, a skip leaves it.  *)

C4_RecordMutation ==
  [][ (Called /\ TheCall.disp \in {"skip_cache", "skip_disk", "write"})
      => LET c == TheCall
         IN /\ Field(CacheAfter, c.url, "md5") = <<calculate_md5(c.response.body)>>
            /\ Field(CacheAfter, c.url, "etag") =
                 IF c.response.etag # None THEN <<c.response.etag>>
                 ELSE Field(cache_data, c.url, "etag")
            /\ Field(CacheAfter, c.url, "last_modified") =
                 IF c.response.lm # None THEN <<c.response.lm>>
                 ELSE Field(cache_data, c.url, "last_modified")
            /\ Field(CacheAfter, c.url, "last_download") =
                 IF c.disp = "write" THEN <<clock>>
                 ELSE Field(cache_data, c.url, "last_download") ]_vars

\* a page was skipped by digest; its response carried a new entity tag and
\* no Last-Modified, and the record keeps the Last-Modified of an earlier run
C4_Witness ==
  /\ pc = "loop"
  /\ \E i \in 1..Len(Calls) :
       /\ Calls[i].disp = "skip_cache"
       /\ Calls[i].response.lm = None
       /\ Calls[i].response.etag # None
       /\ Field(cache_data, Calls[i].url, "etag") = <<Calls[i].response.etag>>
       /\ Field(cache_data, Calls[i].url, "last_modified") # << >>

----------------------------------------------------------------------------
(* Reading the state of the run in progress, or of the last run *)

\* the cache of the process, as it was when the process ended if it did
Memory == IF pc = "idle" /\ run_log # << >> THEN run_log[Len(run_log)].memory
          ELSE cache_data

\* the response carries a page: it is neither a failure nor a 304
Fetched(call) == Is2xx(call.response)

\* two calls of one run, the first before the second, for distinct URLs whose
\* pages have the same title
SameTitle(i, j) ==
  /\ i < j
  /\ Calls[i].url # Calls[j].url
  /\ Fetched(Calls[i]) /\ Fetched(Calls[j])
  /\ get_page_title(Calls[i].response.body) # EmptyStr
  /\ get_page_title(Calls[i].response.body) = get_page_title(Calls[j].response.body)

----------------------------------------------------------------------------
(* C5 as claimed: with duplicate checking on, of two distinct URLs of one  *)
(* run whose pages have the same title exactly one is written, the one     *)
(* seen first, and the record of the other has the title.                  *)

C5_ExactlyOneWritten ==
  check_title_duplicate
  => \A i, j \in 1..Len(Calls) :
       SameTitle(i, j)
       => /\ Calls[i].disp = "write"
          /\ ~Calls[j].wrote
          /\ Field(Memory, Calls[j].url, "title") = <<get_page_title(Calls[j].response.body)>>

(* C5 as amended: with duplicate checking on, of two distinct URLs of one  *)
(* run whose pages have the same title the one seen later is suppressed as *)
(* a duplicate and not written, and its record has the title; the one seen *)
(* first is the only one that can be written, and it is written only when  *)
(* it is not itself a duplicate of a file found at the start of the run    *)
(* and its content has changed.                                            *)

C5_LaterOneSuppressed ==
  check_title_duplicate
  => \A i, j \in 1..Len(Calls) :
       SameTitle(i, j)
       => /\ Calls[j].disp = "title_duplicate"
          /\ ~Calls[j].wrote
          /\ Field(Memory, Calls[j].url, "title") = <<get_page_title(Calls[j].response.body)>>
          /\ Calls[i].disp \in {"write", "write_failed", "skip_cache", "skip_disk",
                                "title_duplicate"}

\* /a was written and /b, with the title of /a over other content, was not
C5_Witness ==
  /\ check_title_duplicate
  /\ \E i, j \in 1..Len(Calls) :
       /\ SameTitle(i, j)
       /\ Calls[i].disp = "write"
       /\ Calls[j].disp = "title_duplicate"
       /\ Calls[i].response.body # Calls[j].response.body
       /\ Calls[j].file \notin DOMAIN files

----------------------------------------------------------------------------
(* C6: with duplicate checking on, a 2xx page whose title is a key of the  *)
(* title index is not written, whatever its digest and whatever the cached *)
(* digest, and no output file is created for it.                           *)

C6_DuplicateNeverWritten ==
  [][ ( /\ Called
        /\ check_title_duplicate
        /\ Is2xx(TheCall.response)
        /\ get_page_title(TheCall.response.body) \in DOMAIN title_mapping )
      => /\ TheCall.disp = "title_duplicate"
         /\ ~TheCall.wrote
         /\ ~TheCall.digested
         /\ files' = files ]_vars

\* a page was suppressed whose title is that of a file found at the start of
\* the run, while its content is not the cached one and not the file's
C6_Witness ==
  /\ pc = "loop"
  /\ runs = 2
  /\ \E i \in 1..Len(Calls) :
       /\ Calls[i].disp = "title_duplicate"
       /\ Calls[i].file \in DOMAIN files
       /\ calculate_md5(files[Calls[i].file]) # calculate_md5(Calls[i].response.body)
       /\ Field(cache_data, Calls[i].url, "md5") # << >>
       /\ Field(cache_data, Calls[i].url, "md5") # <<calculate_md5(Calls[i].response.body)>>

----------------------------------------------------------------------------
(* C7: when a 2xx page is suppressed as a title duplicate, no digest is    *)
(* computed and no file written, and the entity tag and the last-modified  *)
(* value the response carries are put into the record of the URL.          *)

C7_ValidatorsOnDuplicate ==
  [][ (Called /\ TheCall.disp = "title_duplicate")
      => LET c == TheCall
         IN /\ ~c.digested
            /\ ~c.wrote
            /\ c.response.etag # None
                 => Field(CacheAfter, c.url, "etag") = <<c.response.etag>>
            /\ c.response.lm # None
                 => Field(CacheAfter, c.url, "last_modified") = <<c.response.lm>> ]_vars

----------------------------------------------------------------------------
(* C8: when the request for a URL fails (it raises, or its status is       *)
(* neither 2xx nor 304), the cache, the title index and the output files   *)
(* are left as they were, and the loop goes on to the next link.           *)

TransportFailure(response) ==
  response.status = 0 \/ ~(Is2xx(response) \/ response.status = 304)

C8_FailureContained ==
  [][ (Called /\ TransportFailure(TheCall.response))
      => /\ files' = files
         /\ CacheAfter = cache_data
         /\ IndexAfter = title_mapping
         /\ pc = "loop" => pc' = "loop" /\ link_idx' = link_idx + 1 ]_vars

----------------------------------------------------------------------------
(* C9 as claimed: in every state, the md5 of a record is the digest of the *)
(* last content that was written or confirmed unchanged for the URL, by    *)
(* whichever run did it.  The record is the one of the running process,    *)
(* and the one of the cache file when no process is running.               *)

RECURSIVE CallsOfRuns(_)
CallsOfRuns(log) ==
  IF log = << >> THEN << >> ELSE CallsOfRuns(SubSeq(log, 1, Len(log) - 1)) \o log[Len(log)].calls

\* the calls, among calls, that wrote the page of url or found it unchanged
Settled(calls, url) ==
  {i \in 1..Len(calls) : /\ calls[i].url = url
                         /\ calls[i].disp \in {"write", "skip_cache", "skip_disk"}}

Last(S) == CHOOSE i \in S : \A j \in S : j <= i

C9_DigestInvariant ==
  LET cache == IF pc = "idle" THEN get_cache_info(cache_file) ELSE cache_data
      calls == CallsOfRuns(run_log)
  IN \A u \in DOMAIN cache :
       Field(cache, u, "md5") # << >>
       => /\ Settled(calls, u) # {}
          /\ Field(cache, u, "md5") =
               <<calculate_md5(calls[Last(Settled(calls, u))].response.body)>>

(* C9 as amended: in every state of a running process, the md5 of a record *)
(* is the digest of the last content this process wrote or confirmed       *)
(* unchanged for the URL, and, when this process has done neither, the md5 *)
(* the record had in the cache file the process loaded (none when it had   *)
(* none); so a failed write, a failed request, a 304 and a title-duplicate *)
(* skip leave md5 as it was.                                               *)

C9_DigestOfThisRun ==
  pc # "idle"
  => LET loaded == get_cache_info(cache_file)
     IN \A u \in (DOMAIN cache_data) \cup (DOMAIN loaded) :
          Field(cache_data, u, "md5") =
            IF Settled(Calls, u) # {}
            THEN <<calculate_md5(Calls[Last(Settled(Calls, u))].response.body)>>
            ELSE Field(loaded, u, "md5")

\* the write of a changed page failed and the record keeps the digest of the
\* content of the run before
C9_Witness ==
  /\ pc = "loop"
  /\ \E i \in 1..Len(Calls) :
       /\ Calls[i].disp = "write_failed"
       /\ Field(cache_data, Calls[i].url, "md5") # << >>
       /\ Field(cache_data, Calls[i].url, "md5") # <<calculate_md5(Calls[i].response.body)>>

----------------------------------------------------------------------------
(* C10: when a run is interrupted in the loop over the links, the cache    *)
(* the next run loads lacks the record updates of at most SnapshotPeriod   *)
(* of the linked URLs the interrupted run processed.                       *)

C10_BoundedLoss ==
  ( /\ pc = "idle"
    /\ run_log # << >>
    /\ run_log[Len(run_log)].ended = "crashed"
    /\ cache_file.state # "corrupt" )
  => LET memory == run_log[Len(run_log)].memory
         next_run == get_cache_info(cache_file)
         lost == {u \in (DOMAIN memory) \ {base_url} : Record(next_run, u) # Record(memory, u)}
     IN Cardinality(lost) <= SnapshotPeriod

----------------------------------------------------------------------------
(* C11: a link whose URL matches an ignore pattern is not handed to        *)
(* save_webpage_as_html: the step of the loop that meets it fetches        *)
(* nothing, leaves the output files, the cache and the snapshot file as    *)
(* they were and does not count it in page_count; and no call of the loop  *)
(* is for a URL that matches an ignore pattern.                            *)

\* the URL matches one of the patterns of the command line
MatchesIgnore(url) == \E pattern \in ignore_patterns : Contains(url, pattern)

\* this step of the loop meets a link, relative to the origin, that matches
LoopMeetsIgnored ==
  /\ pc = "loop"
  /\ link_idx <= Len(links)
  /\ link_idx' = link_idx + 1
  /\ links[link_idx] # EmptyStr
  /\ StartsWith(links[link_idx], <<"/">>)
  /\ MatchesIgnore(urljoin(base_url, links[link_idx]))

C11_IgnoredNeverProcessed ==
  [][ /\ LoopMeetsIgnored
        => /\ ~Called
           /\ run_log' = run_log
           /\ files' = files
           /\ cache_data' = cache_data
           /\ title_mapping' = title_mapping
           /\ page_count' = page_count
           /\ temp_cache_file' = temp_cache_file
      /\ (Called /\ pc = "loop") => ~MatchesIgnore(TheCall.url) ]_vars

\* the loop went past /b, which matches, and processed another link
C11_Witness ==
  /\ pc = "loop"
  /\ link_idx > Len(links)
  /\ page_count >= 1
  /\ \E u \in processed_urls :
       /\ MatchesIgnore(u)
       /\ \A i \in 1..Len(Calls) : Calls[i].url # u

----------------------------------------------------------------------------
(* C12: in one run no URL is handed to save_webpage_as_html more than      *)
(* once, the call for the entry page counted with the calls of the loop.   *)

C12_NoReprocessing ==
  \A i, j \in 1..Len(Calls) : i # j => Calls[i].url # Calls[j].url

----------------------------------------------------------------------------
(* C13: the entry page is never suppressed as a title duplicate: a 2xx     *)
(* entry page has its digest computed, and is written when neither the     *)
(* cached digest nor the file on disk matches it, also when the output     *)
(* directory holds a file with its title.                                  *)

C13_EntryPageExempt ==
  [][ (Called /\ pc = "entry" /\ Is2xx(TheCall.response))
      => LET c == TheCall
             digest == calculate_md5(c.response.body)
         IN /\ c.disp # "title_duplicate"
            /\ c.digested
            /\ ( /\ Field(cache_data, c.url, "md5") # <<digest>>
                 /\ ~(c.file \in DOMAIN files /\ calculate_md5(files[c.file]) = digest) )
               => c.wrote ]_vars

----------------------------------------------------------------------------
(* C14: the file name of a linked URL is derived from the path of the URL  *)
(* alone: leading slash stripped, '/' replaced by '_', 'index' for the     *)
(* empty path, and a name longer than MaxNameLen cut to KeepLen characters *)
(* followed by '_' and the digest of the whole path; so a URL has the same *)
(* file name in every run, and two URLs whose names are longer than        *)
(* MaxNameLen and differ only after the first KeepLen characters have      *)
(* different file names.  The digest is taken to be free of collisions.    *)

\* the calls of the loops of all runs
LinkCalls ==
  UNION {{run_log[k].calls[i] : i \in 2..Len(run_log[k].calls)} : k \in 1..Len(run_log)}

\* the name of the path, before it is cut
NameOfPath(url) ==
  LET stripped == LStripSlash(url_path(url))
  IN IF stripped = << >> THEN <<"i", "n", "d", "e", "x">> ELSE ReplaceSlash(stripped)

C14_FilenameDerivation ==
  /\ \A c \in LinkCalls :
       LET name == NameOfPath(c.url)
       IN IF Len(name) > MaxNameLen
          THEN /\ c.file.stem = SubSeq(name, 1, KeepLen) \o <<"_">>
               /\ c.file.hash # << >>
          ELSE c.file = [stem |-> name, hash |-> << >>]
  /\ \A c, d \in LinkCalls :
       /\ url_path(c.url) = url_path(d.url) => c.file = d.file
       /\ ( /\ Len(NameOfPath(c.url)) > MaxNameLen
            /\ Len(NameOfPath(d.url)) > MaxNameLen
            /\ url_path(c.url) # url_path(d.url)
            /\ SubSeq(NameOfPath(c.url), 1, KeepLen) = SubSeq(NameOfPath(d.url), 1, KeepLen) )
          => c.file # d.file

\* both long URLs were processed in two runs, with the URL whose name has
\* just MaxNameLen characters and the URL with a query string
C14_Witness ==
  /\ Len(run_log) = 2
  /\ \A k \in 1..2 :
       \A u \in {LongUrlY, LongUrlZ, FullLenUrl, QueryUrl, UrlA} :
         \E i \in 2..Len(run_log[k].calls) : run_log[k].calls[i].url = u

----------------------------------------------------------------------------
(* C15: a first run over an empty output directory and an empty cache, in  *)
(* which nothing fails locally and the entry page and each of its k        *)
(* distinct links relative to the origin answer 2xx with pairwise distinct *)
(* titles, ends with k + 1 output files and k + 1 records in the cache     *)
(* file, each with md5 and last_download, and with the etag and the        *)
(* last_modified of the response when it carried them.                     *)

\* the distinct URLs of the links, relative to the origin, of a page
RelativeLinks(html_content) ==
  {urljoin(base_url, find_all_a(html_content)[i]) :
     i \in {n \in 1..Len(find_all_a(html_content)) :
              StartsWith(find_all_a(html_content)[n], <<"/">>)}}

\* the first run has finished, nothing failed locally, and every page
\* answered 2xx, with a title no other page of the run has
FreshRunFinished ==
  /\ Len(run_log) = 1
  /\ run_log[1].ended = "finalized"
  /\ incidents = 0
  /\ ignore_patterns = {}
  /\ \A i \in 1..Len(Calls) :
       /\ Is2xx(Calls[i].response)
       /\ get_page_title(Calls[i].response.body) # EmptyStr
       /\ \A j \in 1..Len(Calls) :
            i # j => get_page_title(Calls[i].response.body)
                     # get_page_title(Calls[j].response.body)

C15_FreshRun ==
  FreshRunFinished
  => LET k == Cardinality(RelativeLinks(Calls[1].response.body))
         persisted == get_cache_info(cache_file)
     IN /\ Cardinality(DOMAIN files) = k + 1
        /\ main_page_output \in DOMAIN files
        /\ Cardinality({i \in 1..Len(Calls) : Calls[i].disp = "write"}) = k + 1
        /\ Cardinality(DOMAIN persisted) = k + 1
        /\ \A i \in 1..Len(Calls) :
             LET u == Calls[i].url
             IN /\ Field(persisted, u, "md5") # << >>
                /\ Field(persisted, u, "last_download") # << >>
                /\ Calls[i].response.etag # None
                     => Field(persisted, u, "etag") = <<Calls[i].response.etag>>
                /\ Calls[i].response.lm # None
                     => Field(persisted, u, "last_modified") = <<Calls[i].response.lm>>

----------------------------------------------------------------------------
(* C16: once the links of the entry page are known, whatever fails while a *)
(* linked URL is handled (the request, reading the existing file, writing  *)
(* the page), the loop goes through the links one by one to the last, and  *)
(* the run reaches the final save: the cache of the process is written to  *)
(* the cache file and the snapshot file is removed.                        *)

\* this step is the final save of a run that has gone through all its links
FinalSave ==
  /\ link_idx > Len(links)
  /\ pc' = "idle"
  /\ run_log'[Len(run_log')].ended = "finalized"
  /\ cache_file' = JsonFile(cache_data)
  /\ temp_cache_file' = MissingFile

----------------------------------------------------------------------------
(* C17: two documents that differ only in the contents of scripts, styles  *)
(* and comments, in the values of data-*, id, class, style, aria-*, role   *)
(* attributes, in timestamps, in version tokens, in the query strings of   *)
(* URLs or in the lengths of runs of whitespace have the same normal form  *)
(* and the same digest.                                                    *)

\* markup whose content the claim lets differ
VolatileTok(tok) ==
  tok.tag \in {"ws", "script", "style", "comment", "stamp", "version", "query"}
              \cup DynamicAttrs

DifferOnlyInVolatile(H1, H2) ==
  /\ Len(H1) = Len(H2)
  /\ \A i \in 1..Len(H1) :
       /\ H1[i].tag = H2[i].tag
       /\ H1[i].val = H2[i].val \/ VolatileTok(H1[i])
       /\ H1[i].tag = "ws" => H1[i].val # << >> /\ H2[i].val # << >>

\* the pages the runs have fetched
FetchedPages ==
  {CallsOfRuns(run_log)[i].response.body :
     i \in {n \in 1..Len(CallsOfRuns(run_log)) : Is2xx(CallsOfRuns(run_log)[n].response)}}

C17_NormalizationEquivalence ==
  \A H1, H2 \in FetchedPages :
    DifferOnlyInVolatile(H1, H2)
    => /\ clean_html_for_comparison(H1) = clean_html_for_comparison(H2)
       /\ calculate_md5(H1) = calculate_md5(H2)

----------------------------------------------------------------------------
(* C18: with duplicate checking on, a call of save_webpage_as_html leaves  *)
(* every title of the index with the file it had (no owner is changed or   *)
(* removed), adds at most the title of its page, and adds that title, with *)
(* the file of the call, whenever the page is a 2xx page with a title the  *)
(* index does not hold, whether the page is then skipped, written, or its  *)
(* write fails.                                                            *)

C18_FirstWriterWins ==
  [][ Called
      => LET c == TheCall
             page_title == get_page_title(c.response.body)
         IN /\ \A t \in DOMAIN title_mapping :
                 t \in DOMAIN IndexAfter /\ IndexAfter[t] = title_mapping[t]
            /\ DOMAIN IndexAfter \subseteq
                 (DOMAIN title_mapping) \cup
                 (IF Is2xx(c.response) THEN {page_title} ELSE {})
            /\ ( /\ check_title_duplicate
                 /\ Is2xx(c.response)
                 /\ page_title # EmptyStr
                 /\ page_title \notin DOMAIN title_mapping )
               => /\ page_title \in DOMAIN IndexAfter
                  /\ IndexAfter[page_title] = c.file
                  /\ c.disp \in {"skip_cache", "skip_disk", "write", "write_failed"} ]_vars

\* a page was accepted and then not written, its title went into the index
\* with its file, and a later page of the same title left that owner in place
C18_Witness ==
  /\ check_title_duplicate
  /\ pc = "loop"
  /\ \E i, j \in 1..Len(Calls) :
       /\ i < j
       /\ Calls[i].disp \in {"skip_cache", "skip_disk", "write_failed"}
       /\ Calls[j].disp = "title_duplicate"
       /\ Calls[j].file # Calls[i].file
       /\ get_page_title(Calls[i].response.body) = get_page_title(Calls[j].response.body)
       /\ get_page_title(Calls[i].response.body) \in DOMAIN title_mapping
       /\ title_mapping[get_page_title(Calls[i].response.body)] = Calls[i].file

----------------------------------------------------------------------------
(* C19: within one run, two calls of save_webpage_as_html for different    *)
(* URLs (the entry page with index.html, a link with its derived name)     *)
(* have different target files.                                            *)

C19_NoSharedFile ==
  \A i, j \in 1..Len(Calls) :
    Calls[i].url # Calls[j].url => Calls[i].file # Calls[j].file

----------------------------------------------------------------------------
(* C20: with duplicate checking on, when the title index maps the title of *)
(* a 2xx page to the target file of this very call, that file is on disk,  *)
(* and the digest of the page is neither the cached one nor the one of the *)
(* file, the call writes the page to the file and sets the md5 of the      *)
(* record to the digest of the page.                                       *)

OwnTitle(c) ==
  /\ get_page_title(c.response.body) \in DOMAIN title_mapping
  /\ title_mapping[get_page_title(c.response.body)] = c.file

C20_OwnFileReconciled ==
  [][ ( /\ Called
        /\ check_title_duplicate
        /\ Is2xx(TheCall.response)
        /\ TheCall.write = "ok"
        /\ OwnTitle(TheCall)
        /\ TheCall.file \in DOMAIN files
        /\ get_page_title(files[TheCall.file]) = get_page_title(TheCall.response.body)
        /\ calculate_md5(files[TheCall.file]) # calculate_md5(TheCall.response.body)
        /\ Field(cache_data, TheCall.url, "md5") # <<calculate_md5(TheCall.response.body)>> )
      => /\ TheCall.wrote
         /\ TheCall.file \in DOMAIN files'
         /\ files'[TheCall.file] = TheCall.response.body
         /\ Field(CacheAfter, TheCall.url, "md5") = <<calculate_md5(TheCall.response.body)>> ]_vars

----------------------------------------------------------------------------
(* C21: when a run has reached the final save of the cache, every URL the  *)
(* run processed with a 2xx response and did not suppress as a title       *)
(* duplicate has its target file on disk, and the digest of that file is   *)
(* the md5 of the record of the URL, also when output files were deleted   *)
(* between the runs and the cache file was kept.                           *)

\* at the end of run k the file of the call is there with the recorded digest
FileAgreesWithRecord(k, c) ==
  /\ c.file \in DOMAIN run_log[k].files
  /\ Field(run_log[k].memory, c.url, "md5")
       = <<calculate_md5(run_log[k].files[c.file])>>

C21_CacheAndDiskAgree ==
  \A k \in 1..Len(run_log) :
    run_log[k].ended = "finalized"
    => \A i \in 1..Len(run_log[k].calls) :
         LET c == run_log[k].calls[i]
         IN (Is2xx(c.response) /\ c.disp # "title_duplicate")
            => FileAgreesWithRecord(k, c)

====
